---- MODULE Spec2Model ----
(***************************************************************************)
(* Process-lifecycle state machine of scripts/manage.js (ServiceManager):  *)
(* daemon and foreground launch, readiness polling, graceful-to-forceful   *)
(* shutdown, restart, all built on the PID file and the startup marker.    *)
(*                                                                         *)
(* Every callback of the controller (a command handler, a timer tick, a    *)
(* child-process event handler) is one atomic action: node runs each to    *)
(* completion.  The managed children and the other controller invocations  *)
(* are separate OS processes and interleave between callbacks.             *)
(* process.kill may throw, and so may the deletion of an old startup        *)
(* marker before a launch (lines 89-96); the other file-system calls are   *)
(* modelled as succeeding.                                                 *)
(***************************************************************************)
EXTENDS Integers, FiniteSets

\* ---- bounds of the model ------------------------------------------------
\* Number of service processes the operating system hands out in one run;
\* pids are allocated in increasing order and not reused within a run (a
\* run before it may have used the same numbers).
MaxPid == 2

\* ---- program constants --------------------------------------------------
maxChecks == 30
maxAttempts == 30
checkIntervalMs == 200
checkExitMs == 1000
restartDelayMs == 2000

PIDS == 1..MaxPid
\* The controller invocations (terminals) that may be active at the same time.
CTL == {"A", "B"}

NoFile == 0      \* a file that does not exist / getPid() === null
NoPid == 0
NoExit == -1     \* the controller process has not exited in this step
Unparsable == -1 \* marker file caught in the middle of a write

VARIABLES
    alive,     \* pids of the live service processes (process.kill(pid, 0) succeeds)
    nextPid,   \* pid the next spawn() returns
    pidFile,   \* PID_FILE: NoFile or the decimal pid it holds
    marker,    \* STARTUP_MARKER_FILE: NoFile, Unparsable, or its pid field
    markerStale, \* the marker file was written by a run before the last launch
    recentLog, \* last 30 lines of LOG_FILE: who wrote a success / failure string
    ctl,       \* the controller processes and their pending timers and handlers
    out        \* what the last callback did: result, signals, exit code

vars == <<alive, nextPid, pidFile, marker, markerStale, recentLog, ctl, out>>

\* A controller process that is not running (before invocation, after exit).
\* restarting: the process runs restart() and its start timer or the polling
\* loop of its stop() is still pending.
Idle ==
    [run |-> FALSE, child |-> NoPid, fg |-> FALSE, polling |-> FALSE,
     checkCount |-> 0, stopPid |-> NoPid, attempts |-> 0,
     restart |-> FALSE, daemon |-> FALSE, restarting |-> FALSE]

\* The observable effects of the callback that ran last: its result, the exit
\* code if the controller process ended in it, the signals it sent (term:
\* SIGTERM, kill: SIGKILL and whether it was delivered), the pid it spawned.
\* pid is the pid the callback acted on: the child a readiness tick watches,
\* the child whose exit a foreground handler reports,
\* the process stop() or a stop tick handles (for a stop() that found nothing
\* running, the stale pid it read from the PID file), and for start() the process
\* whose stop polling loop is still pending in the same controller.
NoOut ==
    [op |-> "env", ctl |-> "-", res |-> "-", exit |-> NoExit,
     pid |-> NoPid, term |-> NoPid, kill |-> NoPid, killOk |-> FALSE,
     spawned |-> NoPid]

Out(op, c, res, exit) ==
    [NoOut EXCEPT !.op = op, !.ctl = c, !.res = res, !.exit = exit]

\* ---- ProcessRegistry ----------------------------------------------------
getPid == pidFile

\* Mutant of isProcessRunning: the failing probe is not caught as "not running".
isProcessRunningAlways(pid) == TRUE

isProcessRunning(pid) == pid \in alive

\* Mutant of writePid: the pid never reaches the file.
writePidLost(pid) == NoFile

\* Content of PID_FILE after writePid(pid).
writePid(pid) == pid

\* Mutant of getStatus: the liveness probe is read the wrong way round.
getStatusInverted ==
    IF getPid # NoFile /\ ~isProcessRunning(getPid)
    THEN [running |-> TRUE, pid |-> getPid]
    ELSE [running |-> FALSE, pid |-> NoPid]

getStatus ==
    IF getPid # NoFile /\ isProcessRunning(getPid)
    THEN [running |-> TRUE, pid |-> getPid]
    ELSE [running |-> FALSE, pid |-> NoPid]

\* Mutant of removePidFile: the PID file is left behind.
removePidFileMarkerOnly ==
    /\ pidFile' = pidFile
    /\ marker' = NoFile
    /\ markerStale' = FALSE

\* Mutant of removePidFile: the startup marker is left behind.
removePidFileOnly ==
    /\ pidFile' = NoFile
    /\ marker' = marker
    /\ markerStale' = markerStale

\* removePidFile(): unlinks PID_FILE and STARTUP_MARKER_FILE.
removePidFile ==
    /\ pidFile' = NoFile
    /\ marker' = NoFile
    /\ markerStale' = FALSE

\* node ends a process whose event loop holds no timer and no child handle.
Pending(r) == r.fg \/ r.polling \/ r.stopPid # NoPid \/ r.restart

Settle(r) == IF Pending(r) THEN r ELSE Idle

ExitOf(r) == IF Pending(r) THEN NoExit ELSE 0

\* Concurrency covered by the model: one invocation at a time holds timers
\* (readiness polling, stop polling, the restart delay); the other terminal
\* supervises a foreground service or runs commands that schedule no timer.
\* The invocations being interchangeable, the one holding timers is named A.
MayTime(c) == c = "A"

\* A terminal in which no controller process is running.
Free(c) == ~ctl[c].run

\* ---- Launcher: start(daemon), lines 80-247 -------------------------------
\* Lines 89-96: the marker of an earlier launch is deleted before the spawn;
\* unlinkSync may throw, which is only warned about: the old file stays.
cleanStaleMarker ==
    \/ /\ marker' = NoFile
       /\ markerStale' = FALSE
    \/ /\ marker # NoFile
       /\ marker' = marker
       /\ markerStale' = TRUE

\* Background branch, lines 98-221: spawn detached, record the pid, start the
\* readiness interval.  openSync/spawn may throw: lines 217-221.
StartDaemon(c, r, op) ==
    \/ /\ nextPid <= MaxPid
       /\ MayTime(c)
       /\ alive' = alive \cup {nextPid}
       /\ nextPid' = nextPid + 1
       /\ pidFile' = writePid(nextPid)
       /\ cleanStaleMarker
       /\ ctl' = [ctl EXCEPT ![c] =
                    [r EXCEPT !.run = TRUE, !.child = nextPid,
                              !.polling = TRUE, !.checkCount = 0]]
       /\ out' = [Out(op, c, "accepted", NoExit)
                    EXCEPT !.pid = r.stopPid, !.spawned = nextPid]
    \/ /\ removePidFile
       /\ ctl' = [ctl EXCEPT ![c] = Idle]
       /\ out' = [Out(op, c, "launchError", 1) EXCEPT !.pid = r.stopPid]
       /\ UNCHANGED <<alive, nextPid>>

\* Foreground branch, lines 222-244: spawn attached, record the pid, register
\* the 'exit' and 'error' handlers.  A failed spawn has no pid: writePid
\* catches the TypeError, and the 'error' event, emitted on the next tick of
\* the event loop, runs removePidFile() before anything else can run.
StartForeground(c, r, op) ==
    \/ /\ nextPid <= MaxPid
       /\ alive' = alive \cup {nextPid}
       /\ nextPid' = nextPid + 1
       /\ pidFile' = writePid(nextPid)
       /\ cleanStaleMarker
       /\ ctl' = [ctl EXCEPT ![c] =
                    [r EXCEPT !.run = TRUE, !.child = nextPid, !.fg = TRUE]]
       /\ out' = [Out(op, c, "accepted", NoExit)
                    EXCEPT !.pid = r.stopPid, !.spawned = nextPid]
    \/ /\ removePidFile
       /\ ctl' = [ctl EXCEPT ![c] = Settle(r)]
       /\ out' = [Out(op, c, "spawnError", ExitOf(r)) EXCEPT !.pid = r.stopPid]
       /\ UNCHANGED <<alive, nextPid>>

\* start(daemon) run by controller c whose other pending work is r.
start(c, r, daemon, op) ==
    /\ UNCHANGED recentLog
    /\ IF getStatus.running
       THEN /\ ctl' = [ctl EXCEPT ![c] = Settle(r)]
            /\ out' = [Out(op, c, "rejected", ExitOf(r)) EXCEPT !.pid = r.stopPid]
            /\ UNCHANGED <<alive, nextPid, pidFile, marker, markerStale>>
       ELSE IF daemon THEN StartDaemon(c, r, op) ELSE StartForeground(c, r, op)

\* main(): `start` / `start -d`.
CmdStart(c, daemon) ==
    /\ Free(c)
    /\ start(c, [Idle EXCEPT !.run = TRUE], daemon, "start")

\* ---- timers of one controller --------------------------------------------
\* Due times in ms since restart() was called; they order the callbacks of one
\* event loop (earliest first, equal times in either order).  Only restart()
\* has more than one timer pending at once.
StopDue(r) == (r.attempts + 1) * checkExitMs

ReadyDue(r) == restartDelayMs + (r.checkCount + 1) * checkIntervalMs

StopTickDue(r) ==
    /\ r.stopPid # NoPid
    /\ r.restart => StopDue(r) <= restartDelayMs
    /\ r.polling => StopDue(r) <= ReadyDue(r)

RestartDue(r) ==
    /\ r.restart
    /\ r.stopPid # NoPid => restartDelayMs <= StopDue(r)

ReadyTickDue(r) ==
    /\ r.polling
    /\ r.stopPid # NoPid => ReadyDue(r) <= StopDue(r)

\* ---- ReadinessDetector: the setInterval callback, lines 125-216 -----------
\* Mutant of Resolve: the log scan runs before the marker check.
ResolveLogFirst(child, n) ==
    IF ~isProcessRunning(child) THEN "FAILURE_DEAD"
    ELSE IF recentLog.succ # NoPid THEN "SUCCESS_LOG"
    ELSE IF recentLog.fail # NoPid THEN "FAILURE_LOG"
    ELSE IF marker = child THEN "SUCCESS"
    ELSE IF n >= maxChecks THEN "TIMEOUT"
    ELSE "POLLING"

\* Mutant of Resolve: the failure strings are not looked for.
ResolveNoFailureScan(child, n) ==
    IF ~isProcessRunning(child) THEN "FAILURE_DEAD"
    ELSE IF marker = child THEN "SUCCESS"
    ELSE IF recentLog.succ # NoPid THEN "SUCCESS_LOG"
    ELSE IF n >= maxChecks THEN "TIMEOUT"
    ELSE "POLLING"

\* Mutant of Resolve: the tick budget is never found exhausted.
ResolveNoBudget(child, n) ==
    IF ~isProcessRunning(child) THEN "FAILURE_DEAD"
    ELSE IF marker = child THEN "SUCCESS"
    ELSE IF recentLog.succ # NoPid THEN "SUCCESS_LOG"
    ELSE IF recentLog.fail # NoPid THEN "FAILURE_LOG"
    ELSE "POLLING"

\* Mutant of Resolve: any marker that parses is taken, whatever its pid.
ResolveAnyMarker(child, n) ==
    IF ~isProcessRunning(child) THEN "FAILURE_DEAD"
    ELSE IF marker \in PIDS THEN "SUCCESS"
    ELSE IF recentLog.succ # NoPid THEN "SUCCESS_LOG"
    ELSE IF recentLog.fail # NoPid THEN "FAILURE_LOG"
    ELSE IF n >= maxChecks THEN "TIMEOUT"
    ELSE "POLLING"

\* Mutant of Resolve: the marker check runs before the liveness check.
ResolveMarkerFirst(child, n) ==
    IF marker = child THEN "SUCCESS"
    ELSE IF ~isProcessRunning(child) THEN "FAILURE_DEAD"
    ELSE IF recentLog.succ # NoPid THEN "SUCCESS_LOG"
    ELSE IF recentLog.fail # NoPid THEN "FAILURE_LOG"
    ELSE IF n >= maxChecks THEN "TIMEOUT"
    ELSE "POLLING"

\* The outcome of one tick of the detector watching `child`, checkCount
\* already incremented to n: the first check that resolves, in code order.
Resolve(child, n) ==
    IF ~isProcessRunning(child) THEN "FAILURE_DEAD"
    ELSE IF marker = child THEN "SUCCESS"
    ELSE IF recentLog.succ # NoPid THEN "SUCCESS_LOG"
    ELSE IF recentLog.fail # NoPid THEN "FAILURE_LOG"
    ELSE IF n >= maxChecks THEN "TIMEOUT"
    ELSE "POLLING"

ReadinessTick(c) ==
    LET r == ctl[c]
        n == r.checkCount + 1
        res == Resolve(r.child, n)
    IN  /\ ReadyTickDue(r)
        /\ UNCHANGED <<alive, nextPid, recentLog>>
        /\ CASE res = "POLLING" ->
                  /\ ctl' = [ctl EXCEPT ![c].checkCount = n]
                  /\ out' = [Out("readyTick", c, res, NoExit) EXCEPT !.pid = r.child]
                  /\ UNCHANGED <<pidFile, marker, markerStale>>
             [] res \in {"SUCCESS", "SUCCESS_LOG", "TIMEOUT"} ->
                  /\ ctl' = [ctl EXCEPT ![c] = Idle]
                  /\ out' = [Out("readyTick", c, res, 0) EXCEPT !.pid = r.child]
                  /\ UNCHANGED <<pidFile, marker, markerStale>>
             [] res = "FAILURE_DEAD" ->
                  /\ removePidFile
                  /\ ctl' = [ctl EXCEPT ![c] = Idle]
                  /\ out' = [Out("readyTick", c, res, 1) EXCEPT !.pid = r.child]
             [] res = "FAILURE_LOG" ->
                  /\ removePidFile
                  /\ ctl' = [ctl EXCEPT ![c] = Idle]
                  /\ out' = [Out("readyTick", c, res, 1)
                               EXCEPT !.pid = r.child, !.term = r.child]

\* ---- foreground child handlers, lines 232-243 -----------------------------
\* child.on('exit'): runs once the foreground child has died.
FgExit(c) ==
    /\ ctl[c].fg
    /\ ~isProcessRunning(ctl[c].child)
    /\ removePidFile
    /\ ctl' = [ctl EXCEPT ![c] = Settle([ctl[c] EXCEPT !.fg = FALSE, !.child = NoPid])]
    /\ out' = [Out("fgExit", c, "cleaned",
                   ExitOf([ctl[c] EXCEPT !.fg = FALSE, !.child = NoPid]))
                 EXCEPT !.pid = ctl[c].child]
    /\ UNCHANGED <<alive, nextPid, recentLog>>

\* ---- ShutdownController: stop(), lines 249-295 ----------------------------
\* stop() run by controller c whose other pending work is r.
stop(c, r, op) ==
    LET status == getStatus IN
    /\ UNCHANGED <<nextPid, recentLog>>
    /\ IF ~status.running
       THEN /\ removePidFile
            /\ ctl' = [ctl EXCEPT ![c] = Settle(r)]
            /\ out' = [Out(op, c, "notRunning", ExitOf(r)) EXCEPT !.pid = getPid]
            /\ UNCHANGED alive
       ELSE \/ /\ MayTime(c)
               /\ ctl' = [ctl EXCEPT ![c] =
                            [r EXCEPT !.stopPid = status.pid, !.attempts = 0]]
               /\ out' = [Out(op, c, "stopping", NoExit)
                            EXCEPT !.pid = status.pid, !.term = status.pid]
               /\ UNCHANGED <<alive, pidFile, marker, markerStale>>
            \/ \* process.kill throws: the process went away after the probe
               /\ alive' = alive \ {status.pid}
               /\ removePidFile
               /\ ctl' = [ctl EXCEPT ![c] = Settle(r)]
               /\ out' = [Out(op, c, "stopFailed", ExitOf(r)) EXCEPT !.pid = status.pid]

\* Mutant of GraceOver: off by one, a 31st poll before the forceful signal.
GraceOverLate(n) == n > maxAttempts

\* attempts >= maxAttempts, line 276.
GraceOver(n) == n >= maxAttempts

\* Mutant of StopTick: the attempts budget is tested before the liveness of
\* the process, so that a process found dead on the last poll is signalled.
StopTickBudgetFirst(c) ==
    LET r == ctl[c]
        n == r.attempts + 1
        ended == [r EXCEPT !.stopPid = NoPid, !.attempts = 0,
                           !.restarting = r.restart]
    IN  /\ StopTickDue(r)
        /\ UNCHANGED <<nextPid, recentLog>>
        /\ IF GraceOver(n)
           THEN /\ alive' = alive \ {r.stopPid}
                /\ removePidFile
                /\ ctl' = [ctl EXCEPT ![c] = Settle(ended)]
                /\ out' = [Out("stopTick", c, "forced", ExitOf(ended))
                             EXCEPT !.pid = r.stopPid, !.kill = r.stopPid,
                                    !.killOk = r.stopPid \in alive]
           ELSE IF ~isProcessRunning(r.stopPid)
           THEN /\ removePidFile
                /\ ctl' = [ctl EXCEPT ![c] = Settle(ended)]
                /\ out' = [Out("stopTick", c, "stopped", ExitOf(ended))
                             EXCEPT !.pid = r.stopPid]
                /\ UNCHANGED alive
           ELSE /\ ctl' = [ctl EXCEPT ![c].attempts = n]
                /\ out' = [Out("stopTick", c, "waiting", NoExit)
                             EXCEPT !.pid = r.stopPid]
                /\ UNCHANGED <<alive, pidFile, marker, markerStale>>

\* The checkExit interval callback, lines 267-287.
StopTick(c) ==
    LET r == ctl[c]
        n == r.attempts + 1
        ended == [r EXCEPT !.stopPid = NoPid, !.attempts = 0,
                           !.restarting = r.restart]
    IN  /\ StopTickDue(r)
        /\ UNCHANGED <<nextPid, recentLog>>
        /\ IF ~isProcessRunning(r.stopPid)
           THEN /\ removePidFile
                /\ ctl' = [ctl EXCEPT ![c] = Settle(ended)]
                /\ out' = [Out("stopTick", c, "stopped", ExitOf(ended))
                             EXCEPT !.pid = r.stopPid]
                /\ UNCHANGED alive
           ELSE IF GraceOver(n)
           THEN /\ alive' = alive \ {r.stopPid}
                /\ removePidFile
                /\ ctl' = [ctl EXCEPT ![c] = Settle(ended)]
                /\ \E ok \in BOOLEAN :
                     out' = [Out("stopTick", c, "forced", ExitOf(ended))
                               EXCEPT !.pid = r.stopPid, !.kill = r.stopPid,
                                      !.killOk = ok]
           ELSE /\ ctl' = [ctl EXCEPT ![c].attempts = n]
                /\ out' = [Out("stopTick", c, "waiting", NoExit)
                             EXCEPT !.pid = r.stopPid]
                /\ UNCHANGED <<alive, pidFile, marker, markerStale>>

\* main(): `stop`.
CmdStop(c) ==
    /\ Free(c)
    /\ stop(c, [Idle EXCEPT !.run = TRUE], "stop")

\* ---- RestartController: restart(daemon), lines 297-306 --------------------
\* main(): `restart` / `restart -d`: stop(), then setTimeout(start, 2000).
CmdRestart(c, daemon) ==
    /\ Free(c)
    /\ MayTime(c)
    /\ stop(c, [Idle EXCEPT !.run = TRUE, !.restart = TRUE, !.daemon = daemon,
                            !.restarting = TRUE],
            "restart")

\* The setTimeout callback of restart(), lines 301-303.
RestartTimer(c) ==
    /\ RestartDue(ctl[c])
    /\ start(c, [ctl[c] EXCEPT !.restart = FALSE, !.daemon = FALSE,
                               !.restarting = (ctl[c].stopPid # NoPid)],
             ctl[c].daemon, "restartTimer")

\* ---- StatusReporter: status(), lines 308-325 ------------------------------
\* Prints getStatus(); reads the PID file and probes the process, changes
\* nothing.
CmdStatus(c) ==
    /\ Free(c)
    /\ getStatus.running \in BOOLEAN
    /\ UNCHANGED vars

\* main(), lines 454-457: an unrecognized command prints the help and exits
\* with code 1.
CmdUnknown(c) ==
    /\ Free(c)
    /\ out' = Out("unknown", c, "unknownCommand", 1)
    /\ UNCHANGED <<alive, nextPid, pidFile, marker, markerStale, recentLog, ctl>>

\* ---- the managed service process (external collaborator) ------------------
\* The child exits: on its own, on a signal it received, or killed externally.
ChildExit(p) ==
    /\ p \in alive
    /\ alive' = alive \ {p}
    /\ out' = NoOut
    /\ UNCHANGED <<nextPid, pidFile, marker, markerStale, recentLog, ctl>>

\* The child writes the startup marker {pid, port}; a reader may catch the
\* file half-written.
ChildWriteMarker(p, v) ==
    /\ p \in alive
    /\ v \in {p, Unparsable}
    /\ marker # v \/ markerStale
    /\ marker' = v
    /\ markerStale' = FALSE
    /\ out' = NoOut
    /\ UNCHANGED <<alive, nextPid, pidFile, recentLog, ctl>>

\* The child appends a line holding a success or a failure string to its
\* stdout log; or enough other lines to push both out of the last 30.
ChildLog(p, kind) ==
    /\ p \in alive
    /\ recentLog[kind] # p
    /\ recentLog' = [recentLog EXCEPT ![kind] = p]
    /\ out' = NoOut
    /\ UNCHANGED <<alive, nextPid, pidFile, marker, markerStale, ctl>>

ChildLogScroll(p) ==
    /\ p \in alive
    /\ recentLog # [succ |-> NoPid, fail |-> NoPid]
    /\ recentLog' = [succ |-> NoPid, fail |-> NoPid]
    /\ out' = NoOut
    /\ UNCHANGED <<alive, nextPid, pidFile, marker, markerStale, ctl>>

\* ---- the state: PID_FILE, STARTUP_MARKER_FILE, LOG_FILE, the processes ----
TypeOK ==
    /\ alive \subseteq PIDS
    /\ nextPid \in 1..(MaxPid + 1)
    /\ pidFile \in {NoFile} \cup PIDS
    /\ marker \in {NoFile, Unparsable} \cup PIDS
    /\ markerStale \in BOOLEAN
    /\ markerStale => marker # NoFile
    /\ recentLog \in [succ : {NoPid} \cup PIDS, fail : {NoPid} \cup PIDS]
    /\ \A c \in CTL :
          /\ ctl[c].run \in BOOLEAN /\ ctl[c].fg \in BOOLEAN
          /\ ctl[c].polling \in BOOLEAN /\ ctl[c].restart \in BOOLEAN
          /\ ctl[c].daemon \in BOOLEAN
          /\ ctl[c].restarting \in BOOLEAN
          /\ ctl[c].restarting => (ctl[c].restart \/ ctl[c].stopPid # NoPid)
          /\ ctl[c].restart => ctl[c].restarting
          /\ ctl[c].child \in {NoPid} \cup PIDS
          /\ ctl[c].stopPid \in {NoPid} \cup PIDS
          /\ ctl[c].checkCount \in 0..(maxChecks - 1)
          /\ ctl[c].attempts \in 0..(maxAttempts - 1)
          /\ ctl[c].run = Pending(ctl[c])
    /\ out.exit \in {NoExit, 0, 1}

\* ---- specification --------------------------------------------------------
\* No controller is running, no service process is alive, the log tail holds
\* no known string.  An earlier run may have left its startup marker behind
\* (a service killed without `stop`); the operating system hands out pid
\* numbers again, so that marker may carry the pid of a process spawned later.
Init ==
    /\ alive = {}
    /\ nextPid = 1
    /\ pidFile = NoFile
    /\ marker \in {NoFile} \cup PIDS
    /\ markerStale = (marker # NoFile)
    /\ recentLog = [succ |-> NoPid, fail |-> NoPid]
    /\ ctl = [c \in CTL |-> Idle]
    /\ out = NoOut

Next ==
    \/ \E c \in CTL, d \in BOOLEAN : CmdStart(c, d)
    \/ \E c \in CTL : CmdStop(c)
    \/ \E c \in CTL, d \in BOOLEAN : CmdRestart(c, d)
    \/ \E c \in CTL : CmdStatus(c)
    \/ \E c \in CTL : CmdUnknown(c)
    \/ \E c \in CTL : ReadinessTick(c)
    \/ \E c \in CTL : StopTick(c)
    \/ \E c \in CTL : RestartTimer(c)
    \/ \E c \in CTL : FgExit(c)
    \/ \E p \in PIDS : ChildExit(p)
    \/ \E p \in PIDS, v \in PIDS \cup {Unparsable} : ChildWriteMarker(p, v)
    \/ \E p \in PIDS, k \in {"succ", "fail"} : ChildLog(p, k)
    \/ \E p \in PIDS : ChildLogScroll(p)

Spec == Init /\ [][Next]_vars

\* node runs the callback of a timer that is due: a controller with a pending
\* setInterval (lines 125, 267) or setTimeout (line 301) keeps running them.
Timer(c) == ReadinessTick(c) \/ StopTick(c) \/ RestartTimer(c)

Fairness == \A c \in CTL : WF_vars(Timer(c))

LiveSpec == Spec /\ Fairness

\* ---- properties -----------------------------------------------------------
\* getStatus() returns {running: true, pid: P}.
Reports(P) == getStatus = [running |-> TRUE, pid |-> P]

\* The callback recorded in o is a stop() that completed: it returned the
\* not-running outcome, failed to signal, or its polling loop ended.
StopCompleted(o) ==
    /\ o.op \in {"stop", "restart", "stopTick"}
    /\ o.res \in {"notRunning", "stopFailed", "stopped", "forced"}

\* The callback recorded in o cleaned up after a process it takes for dead or
\* failed: a readiness FAILURE or the foreground 'exit' handler.
LaunchCleanup(o) ==
    \/ o.op = "readyTick" /\ o.res \in {"FAILURE_DEAD", "FAILURE_LOG"}
    \/ o.op = "fgExit"

C2_SingleInstance == Cardinality(alive) <= 1

\* C3 as stated: restart() invokes start() only after the stop has completed:
\* never while the stop polling loop for the old process is still active (the
\* old process not yet seen dead, its PID record not yet removed).
C3_RestartStopsFirst ==
    out.op = "restartTimer" => out.pid = NoPid

\* The registry reports running: the PID file names a live process.
RegistryRunning == pidFile # NoFile /\ pidFile \in alive

\* C4: in a stop on a child that is alive at every poll, no forceful signal is
\* issued during the first 29 polls; on the 30th poll exactly one SIGKILL is
\* issued, the polling loop ends and the PID file is removed, whether the
\* signal is delivered or throws; SIGKILL is issued nowhere else.
C4_ForceAfterGrace ==
    [][/\ \A c \in CTL :
            (out'.op = "stopTick" /\ out'.ctl = c /\ ctl[c].stopPid \in alive) =>
                IF ctl[c].attempts + 1 = maxAttempts
                THEN /\ out'.kill = ctl[c].stopPid
                     /\ pidFile' = NoFile
                     /\ ctl'[c].stopPid = NoPid
                ELSE /\ out'.kill = NoPid
                     /\ ctl'[c].stopPid = ctl[c].stopPid
                     /\ ctl'[c].attempts = ctl[c].attempts + 1
                     /\ ctl'[c].attempts < maxAttempts
       /\ out'.kill # NoPid =>
            out'.op = "stopTick" /\ ctl[out'.ctl].attempts = maxAttempts - 1]_vars

\* The forceful signal threw and the PID file is gone all the same.
C4_Witness ==
    /\ out.op = "stopTick" /\ out.res = "forced"
    /\ out.kill # NoPid /\ ~out.killOk
    /\ pidFile = NoFile

\* C5 as stated: on a readiness tick that finds the marker with the spawned
\* pid P, the detector resolves to SUCCESS with exit code 0 whatever the log
\* holds, and status afterwards reports pid P.
C5_MarkerSuccess ==
    [][\A c \in CTL :
          (out'.op = "readyTick" /\ out'.ctl = c /\ marker = ctl[c].child) =>
              /\ out'.res = "SUCCESS"
              /\ out'.exit = 0
              /\ getStatus' = [running |-> TRUE, pid |-> ctl[c].child]]_vars

\* C5 amended: on a readiness tick that finds the child alive and the marker
\* with the spawned pid P, the detector resolves to SUCCESS with exit code 0
\* on that tick whatever the log holds, sends no signal and leaves the PID
\* file and the marker as they are; status afterwards reports pid P if the PID
\* file still names P at that tick.
C5_MarkerSuccessAlive ==
    [][\A c \in CTL :
          (/\ out'.op = "readyTick" /\ out'.ctl = c
           /\ marker = ctl[c].child /\ ctl[c].child \in alive) =>
              /\ out'.res = "SUCCESS"
              /\ out'.exit = 0
              /\ out'.term = NoPid /\ out'.kill = NoPid
              /\ UNCHANGED <<alive, pidFile, marker>>
              /\ pidFile = ctl[c].child =>
                   getStatus' = [running |-> TRUE, pid |-> ctl[c].child]]_vars

\* SUCCESS through the marker although the log tail holds a failure string.
C5_Witness ==
    /\ out.op = "readyTick" /\ out.res = "SUCCESS"
    /\ recentLog.fail # NoPid
    /\ Reports(out.pid)

\* C6 as stated: on a readiness tick that finds a failure string of the child
\* in the log tail and no marker file, the detector resolves to FAILURE, a
\* termination signal is sent to the child, the PID file is absent afterwards
\* and the controller exits non-zero.
C6_LogFailure ==
    [][\A c \in CTL :
          (/\ out'.op = "readyTick" /\ out'.ctl = c
           /\ recentLog.fail = ctl[c].child /\ marker = NoFile) =>
              /\ out'.res \in {"FAILURE_DEAD", "FAILURE_LOG"}
              /\ out'.term = ctl[c].child
              /\ pidFile' = NoFile
              /\ out'.exit = 1]_vars

\* C6 amended: on a readiness tick that finds a failure string of the child
\* in the log tail, no success string there and no marker file, the detector
\* resolves to FAILURE, the PID file and the marker are absent afterwards and
\* the controller exits with code 1; SIGTERM is sent to the child if it is
\* alive at that tick, and no signal is sent if it has already exited.
C6_LogFailureNoSuccess ==
    [][\A c \in CTL :
          (/\ out'.op = "readyTick" /\ out'.ctl = c
           /\ recentLog.fail = ctl[c].child /\ marker = NoFile
           /\ recentLog.succ = NoPid) =>
              /\ pidFile' = NoFile /\ marker' = NoFile
              /\ out'.exit = 1
              /\ out'.kill = NoPid
              /\ IF ctl[c].child \in alive
                 THEN out'.res = "FAILURE_LOG" /\ out'.term = ctl[c].child
                 ELSE out'.res = "FAILURE_DEAD" /\ out'.term = NoPid]_vars

\* FAILURE through the log scan: the live child was signalled, the PID file
\* is gone.
C6_Witness ==
    /\ out.op = "readyTick" /\ out.res = "FAILURE_LOG"
    /\ recentLog.fail = out.pid
    /\ out.term = out.pid /\ out.pid \in alive
    /\ pidFile = NoFile

\* C7 as stated: a detector that ends in TIMEOUT exits with status 0, sends
\* no signal, and leaves the PID record naming the spawned pid.
C7_TimeoutKeepsRecord ==
    (out.op = "readyTick" /\ out.res = "TIMEOUT") =>
        /\ out.exit = 0
        /\ out.term = NoPid /\ out.kill = NoPid
        /\ pidFile = out.pid

\* C8 as stated: at the moment stop() reports success to its caller on a
\* running process, the PID file and the startup marker are already absent.
C8_StopReturnsStopped ==
    (out.op \in {"stop", "restart"} /\ out.res = "stopping") =>
        pidFile = NoFile /\ marker = NoFile

\* C8 amended: stop() on a running process returns true as soon as SIGTERM is
\* sent; at the moment its polling loop ends (process seen dead, or SIGKILL
\* issued after the grace window) the PID file and the startup marker are
\* absent.
C8_FilesGoneWhenLoopEnds ==
    (out.op = "stopTick" /\ out.res \in {"stopped", "forced"}) =>
        pidFile = NoFile /\ marker = NoFile

\* The polling loop of a stop has seen the process dead.
C8_Witness ==
    /\ out.op = "stopTick" /\ out.res = "stopped"
    /\ out.pid \notin alive
    /\ pidFile = NoFile /\ marker = NoFile

\* C9: stop() invoked while the registry reports not-running returns the
\* not-running outcome without error, leaves no PID file and no marker file,
\* sends no signal, schedules no timer and touches nothing else; invoked
\* again (both files already absent) it leaves the state unchanged.
C9_StopIdempotent ==
    [][\A c \in CTL :
          (out'.op = "stop" /\ out'.ctl = c /\ ~RegistryRunning) =>
              /\ out'.res = "notRunning"
              /\ out'.exit = 0
              /\ pidFile' = NoFile /\ marker' = NoFile
              /\ out'.term = NoPid /\ out'.kill = NoPid
              /\ UNCHANGED <<alive, nextPid, recentLog, ctl>>
              /\ ~RegistryRunning'
              /\ (pidFile = NoFile /\ marker = NoFile) =>
                    UNCHANGED <<pidFile, marker>>]_vars

\* A stop() that found a stale PID file (naming a dead process) cleaned it.
C9_Witness ==
    /\ out.op = "stop" /\ out.res = "notRunning"
    /\ out.pid # NoPid
    /\ pidFile = NoFile /\ marker = NoFile

\* C10: start() invoked (by the start command or by restart's timer) while the
\* registry reports running is rejected: nothing is spawned, no signal is
\* sent, no timer or handler is registered, and the PID file, the marker
\* file and the log are unchanged.
C10_StartRejected ==
    [][\A c \in CTL :
          (out'.op \in {"start", "restartTimer"} /\ out'.ctl = c /\ RegistryRunning) =>
              /\ out'.res = "rejected"
              /\ out'.spawned = NoPid
              /\ out'.term = NoPid /\ out'.kill = NoPid
              /\ UNCHANGED <<alive, nextPid, pidFile, marker, recentLog>>
              /\ \A o \in CTL \ {c} : ctl'[o] = ctl[o]
              /\ ctl'[c] = Settle([ctl[c] EXCEPT !.restart = FALSE, !.daemon = FALSE])]_vars

\* A start was rejected because the service already runs.
C10_Witness ==
    /\ out.op = "start" /\ out.res = "rejected"
    /\ RegistryRunning

\* C11 as stated: whenever the readiness detector resolves to SUCCESS through
\* the marker check, the marker it read was written by the child spawned in
\* this launch, not left by an earlier run (also when the pre-launch deletion
\* of the marker failed or an earlier run had the same pid).
C11_MarkerOfThisLaunch ==
    (out.op = "readyTick" /\ out.res = "SUCCESS") => ~markerStale

\* The callback recorded in o ended in a launch failure, a stop failure or an
\* unrecognized command.
Failed(o) ==
    o.res \in {"FAILURE_DEAD", "FAILURE_LOG", "launchError", "spawnError",
               "stopFailed", "unknownCommand"}

\* C12 as stated: a controller that exits after a readiness SUCCESS or a soft
\* TIMEOUT exits with code 0; a controller that exits after a launch failure,
\* a stop failure (the graceful signal could not be delivered) or an
\* unrecognized command exits with a non-zero code.
C12_ExitCodes ==
    /\ out.res \in {"SUCCESS", "SUCCESS_LOG", "TIMEOUT"} => out.exit = 0
    /\ (Failed(out) /\ out.exit # NoExit) => out.exit > 0

\* C13: within one readiness tick the first check that resolves decides, in
\* the order liveness, marker, log scan (success before failure), tick
\* budget: a dead child yields FAILURE (exit 1) even with a matching marker
\* or a success line in the log; with the child alive a matching marker
\* yields SUCCESS even with a failure line in the log; without a matching
\* marker a success line yields SUCCESS even with a failure line next to it;
\* TIMEOUT is declared only on the 30th tick and only if the child is alive,
\* no marker matches and the log tail holds neither string.
C13_FirstCheckDecides ==
    [][\A c \in CTL :
          (out'.op = "readyTick" /\ out'.ctl = c) =>
              LET child == ctl[c].child IN
              /\ child \notin alive =>
                    out'.res = "FAILURE_DEAD" /\ out'.exit = 1
              /\ (child \in alive /\ marker = child) =>
                    out'.res = "SUCCESS" /\ out'.exit = 0
              /\ (child \in alive /\ marker # child /\ recentLog.succ # NoPid) =>
                    out'.res = "SUCCESS_LOG" /\ out'.exit = 0
              /\ (/\ child \in alive /\ marker # child
                  /\ recentLog.succ = NoPid /\ recentLog.fail # NoPid) =>
                    out'.res = "FAILURE_LOG" /\ out'.exit = 1
              /\ out'.res = "TIMEOUT" <=>
                    /\ ctl[c].checkCount + 1 = maxChecks
                    /\ child \in alive /\ marker # child
                    /\ recentLog.succ = NoPid /\ recentLog.fail = NoPid]_vars

\* The child wrote its success line and died: the tick reports FAILURE.
C13_Witness ==
    /\ out.op = "readyTick" /\ out.res = "FAILURE_DEAD"
    /\ recentLog.succ = out.pid
    /\ out.exit = 1

\* The callback recorded in o is a readiness tick that reached a terminal
\* state.
Terminal(o) ==
    /\ o.op = "readyTick"
    /\ o.res \in {"SUCCESS", "SUCCESS_LOG", "FAILURE_DEAD", "FAILURE_LOG", "TIMEOUT"}

\* C14: after an accepted background start the detector is POLLING with
\* tick count 0; every tick either keeps POLLING with the count incremented
\* and below 30, or reaches one terminal state (SUCCESS, FAILURE, TIMEOUT),
\* and the 30th tick always does, whatever the child, the marker and the log
\* hold; the controller process exits in the terminal tick, so that no tick
\* of that detector runs afterwards; and the detector does leave POLLING.
C14_DetectorTerminates ==
    /\ [][\A c \in CTL :
            /\ (out'.op \in {"start", "restartTimer"} /\ out'.ctl = c
                   /\ out'.res = "accepted" /\ ctl'[c].polling) =>
                  ctl'[c].checkCount = 0 /\ ctl'[c].child = out'.spawned
            /\ (out'.op = "readyTick" /\ out'.ctl = c) =>
                  /\ ctl[c].polling
                  /\ ctl[c].checkCount < maxChecks
                  /\ IF Terminal(out')
                     THEN /\ ~ctl'[c].polling /\ ~ctl'[c].run
                          /\ out'.exit \in {0, 1}
                     ELSE /\ out'.res = "POLLING"
                          /\ ctl'[c].polling
                          /\ ctl'[c].child = ctl[c].child
                          /\ ctl'[c].checkCount = ctl[c].checkCount + 1
                          /\ ctl'[c].checkCount < maxChecks
                  /\ ctl[c].checkCount + 1 = maxChecks => Terminal(out')]_vars
    /\ \A c \in CTL : ctl[c].polling ~> ~ctl[c].polling

\* The detector ran out of its 30 ticks and its controller has exited.
C14_Witness ==
    /\ out.op = "readyTick" /\ out.res = "TIMEOUT"
    /\ ~ctl[out.ctl].polling /\ ~ctl[out.ctl].run

\* C15: a stop polling loop starts only in a stop() that sent SIGTERM to the
\* process; its attempts counter advances only on a poll that finds the
\* process alive; SIGKILL is sent only by the poll made after 29 such polls
\* that finds the process alive once more, and only to that process; a poll
\* that finds the process dead, the 30th included, ends the loop on that poll
\* with the PID file removed and sends no signal, and no poll of that loop
\* runs after it.
C15_ForceOnlyAfterAlivePolls ==
    [][\A c \in CTL :
          /\ (ctl[c].stopPid = NoPid /\ ctl'[c].stopPid # NoPid) =>
                /\ out'.op \in {"stop", "restart"} /\ out'.ctl = c
                /\ out'.term = ctl'[c].stopPid
                /\ ctl'[c].stopPid \in alive
                /\ ctl'[c].attempts = 0
          /\ (ctl[c].stopPid # NoPid /\ ctl'[c].attempts # ctl[c].attempts
                 /\ ctl'[c].stopPid # NoPid) =>
                /\ out'.op = "stopTick" /\ out'.ctl = c
                /\ ctl[c].stopPid \in alive
                /\ ctl'[c].attempts = ctl[c].attempts + 1
                /\ ctl'[c].stopPid = ctl[c].stopPid
          /\ (out'.kill # NoPid /\ out'.ctl = c) =>
                /\ out'.op = "stopTick"
                /\ out'.kill = ctl[c].stopPid
                /\ ctl[c].stopPid \in alive
                /\ ctl[c].attempts = maxAttempts - 1
          /\ (out'.op = "stopTick" /\ out'.ctl = c) =>
                /\ ctl[c].stopPid # NoPid
                /\ ctl[c].attempts < maxAttempts
                /\ ctl[c].stopPid \notin alive =>
                      /\ out'.res = "stopped"
                      /\ out'.kill = NoPid /\ out'.term = NoPid
                      /\ pidFile' = NoFile
                      /\ ctl'[c].stopPid = NoPid]_vars

\* After 29 polls that found it alive, the process has exited before the
\* 30th poll.
C15_Witness ==
    \E c \in CTL :
        /\ ctl[c].stopPid # NoPid
        /\ ctl[c].attempts = maxAttempts - 1
        /\ ctl[c].stopPid \notin alive

ScanOutcome(n) ==
    IF recentLog.succ # NoPid THEN "SUCCESS_LOG"
    ELSE IF recentLog.fail # NoPid THEN "FAILURE_LOG"
    ELSE IF n = maxChecks THEN "TIMEOUT"
    ELSE "POLLING"

\* C17: a tick resolves through the marker check (SUCCESS) only if the marker
\* file exists, parses and its pid field equals the spawned pid; on a tick
\* with the child alive, a marker that is unparsable or carries another pid
\* decides nothing: the outcome is what the log scan and the tick budget
\* give, exactly as with no marker file; it is FAILURE only if the log tail
\* holds a failure string; the marker file is left as it is, and if the tick
\* stays POLLING the next tick reads it again.
C17_MarkerMismatchIgnored ==
    [][\A c \in CTL :
          (out'.op = "readyTick" /\ out'.ctl = c) =>
              LET child == ctl[c].child
                  n == ctl[c].checkCount + 1
              IN  /\ out'.res = "SUCCESS" => marker = child /\ marker \in PIDS
                  /\ (child \in alive /\ marker # child) =>
                        /\ out'.res = ScanOutcome(n)
                        /\ out'.res \in {"FAILURE_DEAD", "FAILURE_LOG"} =>
                              recentLog.fail # NoPid
                        /\ out'.res \in {"POLLING", "SUCCESS_LOG", "TIMEOUT"} =>
                              marker' = marker
                        /\ out'.res = "POLLING" =>
                              /\ ctl'[c].polling
                              /\ ctl'[c].child = child
                              /\ ctl'[c].checkCount = n]_vars

\* A tick found the child alive and the marker half-written, and goes on
\* polling.
C17_Witness ==
    /\ out.op = "readyTick" /\ out.res = "POLLING"
    /\ marker = Unparsable
    /\ out.pid \in alive
    /\ ctl[out.ctl].polling

\* C18 as stated: a cleanup performed for pid P (a poll of the stop loop for
\* P, the foreground exit handler of P, a readiness FAILURE for P) that
\* removes the PID file removes a file naming P: never the record a later
\* start has written for another pid.
C18_CleanupOwnRecord ==
    [][(/\ out'.op \in {"stopTick", "fgExit", "readyTick"}
        /\ pidFile # NoFile /\ pidFile' = NoFile) =>
            pidFile = out'.pid]_vars

\* C19 as stated: a readiness outcome decided by the log scan rests on a line
\* written by the child spawned in this launch: a success or failure string
\* left in the log tail by an earlier run never makes the detector report
\* SUCCESS, nor report FAILURE and signal the new child.
C19_LogOfThisLaunch ==
    /\ (out.op = "readyTick" /\ out.res = "SUCCESS_LOG") =>
          recentLog.succ = out.pid
    /\ (out.op = "readyTick" /\ out.res = "FAILURE_LOG") =>
          recentLog.fail = out.pid

\* The callback recorded in o reports a service that could not be launched or
\* that failed to start.
LaunchFailed(o) ==
    \/ o.res \in {"launchError", "spawnError"}
    \/ o.op = "readyTick" /\ o.res \in {"FAILURE_DEAD", "FAILURE_LOG"}

\* C20 as stated: a restart() leaves a managed process running and reported:
\* in the step in which the last of its timers is done with (the start timer
\* has fired and the stop polling loop has ended), unless the launch failed
\* or the new process has exited since, getStatus() reports a live process
\* other than the one that was stopped.
C20_RestartLeavesRunning ==
    [][\A c \in CTL :
          LET new == IF out'.spawned # NoPid THEN out'.spawned ELSE ctl[c].child
          IN  (/\ ctl[c].restarting /\ ~ctl'[c].restarting
               /\ ~LaunchFailed(out')
               /\ new # NoPid => new \in alive') =>
                  /\ getStatus'.running
                  /\ ctl[c].stopPid # NoPid => getStatus'.pid # ctl[c].stopPid]_vars

====
